---- MODULE Spec2Model ----
(***************************************************************************)
(* Compile-time type lists, value lists and the Tuple storage family of    *)
(* examples/.  Template instantiation is modelled as evaluation: a         *)
(* metafunction is an operator over the list it is instantiated with, an   *)
(* instantiation is an action that records the resulting Type.             *)
(***************************************************************************)
EXTENDS Integers, Sequences, FiniteSets, TLC

VARIABLES List, Compare, Type, inst,
          t, value, Types, cat, op, result, eq, strm,
          variant, args, pending, obj, initLog, access, I, got, walked,
          pack, sizes

typelistVars == <<List, Compare, Type, inst>>

tupleVars == <<t, value, Types, cat, op, result, eq, strm>>

storageVars == <<variant, args, pending, obj, initLog, access, I, got, walked>>

layoutVars == <<pack, sizes>>

vars == <<typelistVars, tupleVars, storageVars, layoutVars>>

----------------------------------------------------------------------------
(* Bounds of the explored inputs *)

MaxLen == 4
MaxValue == 2
MaxArity == 3
\* How far past the last position an index of get is drawn.
MaxBeyond == 2
\* The longest element pack whose record sizes are measured.
MaxPack == 5

\* The argument packs of at most n elements drawn from S.
SeqsUpTo(S, n) == UNION {[1..k -> S] : k \in 0..n}

----------------------------------------------------------------------------
(* typelists.hpp: lists and their elements *)

\* A plain type used as a TypeList element.
PlainType(n) == [name |-> n, T |-> "", Value |-> 0]

\* CTValue<T, Value>: a compile-time value wrapped in a type.
CTValue(T, Value) == [name |-> "CTValue", T |-> T, Value |-> Value]

ElementTypes == {PlainType("char"), PlainType("int"), PlainType("float"), PlainType("double")}

\* TypeList<Args...>
TypeList(Args) == [tmpl |-> "TypeList", T |-> "", Args |-> Args]

\* ValueList<T, Values...>: Args holds the bare values.
ValueList(T, Values) == [tmpl |-> "ValueList", T |-> T, Args |-> Values]

\* sizeof of a list element; every CTValue<T, V> is an empty struct.
SizeOf(E) ==
  CASE E.name = "char" -> 1
    [] E.name = "int" -> 4
    [] E.name = "float" -> 4
    [] E.name = "double" -> 8
    [] OTHER -> 1

IsEmpty(L) == Len(L.Args) = 0

FrontT(L) ==
  IF L.tmpl = "ValueList" THEN CTValue(L.T, Head(L.Args)) ELSE Head(L.Args)

PopFrontT(L) == [L EXCEPT !.Args = Tail(L.Args)]

PushFrontT(E, L) ==
  IF L.tmpl = "ValueList"
    THEN [L EXCEPT !.Args = <<E.Value>> \o L.Args]
    ELSE [L EXCEPT !.Args = <<E>> \o L.Args]

RECURSIVE PushBackT(_, _)
PushBackT(E, L) ==
  IF IsEmpty(L)
    THEN PushFrontT(E, L)
    ELSE PushFrontT(FrontT(L), PushBackT(E, PopFrontT(L)))

\* A reversal that forgets to reverse the remainder.
ReverseT_norec(L) ==
  IF IsEmpty(L) THEN L ELSE PushBackT(FrontT(L), PopFrontT(L))

RECURSIVE ReverseT(_)
ReverseT(L) ==
  IF IsEmpty(L)
    THEN L
    ELSE PushBackT(FrontT(L), ReverseT(PopFrontT(L)))

\* SmallerThanT<T, U>::value
SmallerThanT(T, U) == SizeOf(T) < SizeOf(U)

\* GreaterThanT<CTValue<T, First>, CTValue<T, Second>>::value
GreaterThanT(T, U) == T.Value > U.Value

\* Compare<T, U>::value for the predicate template named by C.
CompareValue(C, T, U) ==
  IF C = "GreaterThanT" THEN GreaterThanT(T, U) ELSE SmallerThanT(T, U)

RECURSIVE InsertSortedT(_, _, _)

\* Insertion before the first element that is not strictly ordered before
\* the new one (non-strict comparison).
InsertSortedT_nonstrict(L, Element, C) ==
  IF IsEmpty(L)
    THEN PushFrontT(Element, L)
    ELSE IF ~CompareValue(C, FrontT(L), Element)
           THEN PushFrontT(Element, L)
           ELSE PushFrontT(FrontT(L), InsertSortedT(PopFrontT(L), Element, C))

\* Insertion that never looks past the first element.
InsertSortedT_front(L, Element, C) == PushFrontT(Element, L)

InsertSortedT(L, Element, C) ==
  IF IsEmpty(L)
    THEN PushFrontT(Element, L)
    ELSE LET NewTail == IF CompareValue(C, Element, FrontT(L))
                          THEN L
                          ELSE InsertSortedT(PopFrontT(L), Element, C)
             NewHead == IF CompareValue(C, Element, FrontT(L))
                          THEN Element
                          ELSE FrontT(L)
         IN  PushFrontT(NewHead, NewTail)

RECURSIVE InsertionSortT(_, _)
InsertionSortT(L, C) ==
  IF IsEmpty(L)
    THEN L
    ELSE InsertSortedT(InsertionSortT(PopFrontT(L), C), FrontT(L), C)

\* using Integers = ValueList<int, 6, 2, 4, 9, 5, 2, 1, 7>
IntegersList == ValueList("int", <<6, 2, 4, 9, 5, 2, 1, 7>>)

----------------------------------------------------------------------------
(* tuples/tuple.hpp: the member-based Tuple *)

ScalarTypes == {"bool", "int", "long", "double"}

\* An element value of a scalar type.  A double holds its value in halves
\* (val = 3 is 1.5); the integral types hold it directly.
Elt(ty, val) == [type |-> ty, val |-> val]

Elements == {Elt("int", 0), Elt("int", 3), Elt("double", 3), Elt("bool", 1)}

\* Tuple<Types...> objects: the sequence of the nested head members.
Tuples == SeqsUpTo(Elements, MaxArity)

TypesOf(tu) == [i \in 1..Len(tu) |-> tu[i].type]

\* Initialization of a member of type ty from e (implicit conversion).
Convert(e, ty) ==
  IF e.type = ty THEN e
  ELSE IF ty = "bool" THEN Elt(ty, IF e.val # 0 THEN 1 ELSE 0)
  ELSE IF ty = "double" THEN Elt(ty, 2 * e.val)
  ELSE IF e.type = "double"
         THEN Elt(ty, IF e.val >= 0 THEN e.val \div 2 ELSE -((-e.val) \div 2))
         ELSE Elt(ty, e.val)

\* The outcome of an expression: a record object, or rejection at compile
\* time (ok = FALSE).  ctor names the constructor that built the object.
Built(c, tu) == [ok |-> TRUE, ctor |-> c, tuple |-> tu]

IllFormed == [ok |-> FALSE, ctor |-> "none", tuple |-> <<>>]

get_head(tu) == Head(tu)

get_tail(tu) == Tail(tu)

\* Tuple(Head const& head, Tuple<Tail...> const& tail), and the variadic
\* constructor when it receives a head and one record.
TupleHeadTail(head, tail) == Built("head tail", <<head>> \o tail)

\* Cost of binding the single record argument to each constructor's
\* parameter: 0 is an exact reference binding, 1 a binding that adds const
\* or binds an rvalue to an lvalue reference, 9 is not viable.
VariadicRank(Ty, src, c) == IF Len(Ty) >= 1 /\ 0 = Len(Ty) - 1 THEN 0 ELSE 9

ConvertingCopyRank(Ty, src, c) ==
  IF Len(Ty) >= 1 /\ Len(src) >= 1 /\ Len(src) - 1 = Len(Ty) - 1
    THEN (IF c = "const lvalue" THEN 0 ELSE 1)
    ELSE 9

ImplicitCopyRank(Ty, src, c) ==
  IF TypesOf(src) = Ty THEN (IF c = "const lvalue" THEN 0 ELSE 1) ELSE 9

ImplicitMoveRank(Ty, src, c) ==
  IF TypesOf(src) = Ty /\ c = "rvalue" THEN 0 ELSE 9

\* Overload resolution for Tuple<Ty...>(src): the best binding wins; between
\* equal bindings a non-template beats a template and the more specialized
\* template (the converting copy) beats the forwarding one.
SelectCtor(Ty, src, c) ==
  LET best == CHOOSE r \in {VariadicRank(Ty, src, c), ConvertingCopyRank(Ty, src, c),
                            ImplicitCopyRank(Ty, src, c), ImplicitMoveRank(Ty, src, c)} :
                \A q \in {VariadicRank(Ty, src, c), ConvertingCopyRank(Ty, src, c),
                          ImplicitCopyRank(Ty, src, c), ImplicitMoveRank(Ty, src, c)} : r <= q
  IN  IF best = 9 THEN "none"
      ELSE IF ImplicitMoveRank(Ty, src, c) = best THEN "implicit move"
      ELSE IF ImplicitCopyRank(Ty, src, c) = best THEN "implicit copy"
      ELSE IF ConvertingCopyRank(Ty, src, c) = best THEN "converting copy"
      ELSE "variadic"

\* Tuple<Ty...>(src) for a record argument src of value category c.
RECURSIVE Construct1(_, _, _)
Construct1(Ty, src, c) ==
  LET sel == SelectCtor(Ty, src, c) IN
  CASE sel = "implicit copy" \/ sel = "implicit move" -> Built(sel, src)
    [] sel = "converting copy" ->
         LET tl == Construct1(Tail(Ty), get_tail(src), "const lvalue") IN
         IF tl.ok
           THEN Built(sel, <<Convert(get_head(src), Head(Ty))>> \o tl.tuple)
           ELSE IllFormed
    [] sel = "variadic" -> [IllFormed EXCEPT !.ctor = sel]
    [] OTHER -> IllFormed

\* The variadic constructor Tuple(VHead&&, VTail&&...) applied to element
\* values: enabled only when the arities agree; Tuple<> has no members.
RECURSIVE VariadicCtor(_, _)
VariadicCtor(Ty, vs) ==
  IF Len(Ty) = 0
    THEN (IF Len(vs) = 0 THEN Built("default", <<>>) ELSE IllFormed)
    ELSE IF Len(vs) >= 1 /\ Len(vs) - 1 = Len(Ty) - 1
           THEN LET tl == VariadicCtor(Tail(Ty), Tail(vs)) IN
                IF tl.ok
                  THEN Built("variadic", <<Convert(Head(vs), Head(Ty))>> \o tl.tuple)
                  ELSE IllFormed
           ELSE IllFormed

\* TupleGet<N>::apply: N tail links, then the head; no overload takes the
\* empty record.
NoElt == [ok |-> FALSE, elt |-> Elt("int", 0)]

RECURSIVE TupleGet(_, _)
TupleGet(N, tu) ==
  IF Len(tu) = 0 THEN NoElt
  ELSE IF N = 0 THEN [ok |-> TRUE, elt |-> get_head(tu)]
  ELSE TupleGet(N - 1, get_tail(tu))

get(N, tu) == TupleGet(N, tu)

make_tuple(elems) == VariadicCtor(TypesOf(elems), elems)

----------------------------------------------------------------------------
(* tuples/makeindexlist.hpp, tuples/algos.hpp, tuples/tupleeq.hpp,
   tuples/tupleio.hpp *)

RECURSIVE MakeIndexListT(_, _)
MakeIndexListT(N, Result) ==
  IF N = 0
    THEN Result
    ELSE MakeIndexListT(N - 1, PushFrontT(CTValue("unsigned", N - 1), Result))

MakeIndexList(N) == MakeIndexListT(N, ValueList("unsigned", <<>>))

\* An unqualified call by name: it resolves only if a function of that
\* name is declared; tuple.hpp declares make_tuple.
Call(name, vs) ==
  IF name = "make_tuple" THEN make_tuple(vs) ELSE IllFormed

RECURSIVE push_back(_, _)
push_back(tu, v) ==
  IF Len(tu) = 0
    THEN VariadicCtor(<<v.type>>, <<v>>)
    ELSE LET tl == push_back(get_tail(tu), v) IN
         IF tl.ok THEN TupleHeadTail(get_head(tu), tl.tuple) ELSE IllFormed

pop_front(tu) ==
  IF Len(tu) = 0 THEN IllFormed ELSE Built("implicit copy", get_tail(tu))

select(tu, Indices) ==
  LET gets == [i \in 1..Len(Indices.Args) |-> get(Indices.Args[i], tu)] IN
  IF \E i \in 1..Len(gets) : ~gets[i].ok
    THEN IllFormed
    ELSE Call("make_Tuple", [i \in 1..Len(gets) |-> gets[i].elt])

reverse(tu) == select(tu, ReverseT(MakeIndexList(Len(tu))))

pop_back(tu) ==
  LET reversed == reverse(tu) IN
  IF ~reversed.ok THEN IllFormed
  ELSE LET popped == pop_front(reversed.tuple) IN
       IF ~popped.ok THEN IllFormed ELSE reverse(popped.tuple)

\* The value of an element as a number of halves, for comparing elements of
\* different arithmetic types.
Halves(e) == IF e.type = "double" THEN e.val ELSE 2 * e.val

\* operator==: defined for records of equal length only.
RECURSIVE TupleEq(_, _)
TupleEq(lhs, rhs) ==
  IF Len(lhs) = 0 /\ Len(rhs) = 0 THEN [ok |-> TRUE, val |-> TRUE]
  ELSE IF Len(lhs) = 0 \/ Len(rhs) = 0 \/ Len(lhs) - 1 # Len(rhs) - 1
         THEN [ok |-> FALSE, val |-> FALSE]
  ELSE IF Halves(get_head(lhs)) = Halves(get_head(rhs))
         THEN TupleEq(get_tail(lhs), get_tail(rhs))
         ELSE [ok |-> TRUE, val |-> FALSE]

\* The characters operator<< of std::ostream writes for an element
\* (default format flags).
Format(e) ==
  IF e.type = "double" /\ e.val % 2 = 1
    THEN ToString(e.val \div 2) \o ".5"
    ELSE IF e.type = "double" THEN ToString(e.val \div 2) ELSE ToString(e.val)

RECURSIVE print_tuple(_, _, _)
print_tuple(out, tu, isFirst) ==
  IF Len(tu) = 0
    THEN out \o (IF isFirst THEN "(" ELSE ")")
    ELSE print_tuple((out \o (IF isFirst THEN "(" ELSE ", ")) \o Format(get_head(tu)),
                     get_tail(tu), FALSE)

\* operator<<(std::ostream&, Tuple<Types...> const&)
Output(out, tu) == print_tuple(out, tu, TRUE)

----------------------------------------------------------------------------
(* tuples/optimized: the storage layouts of the record *)

\* Tuple (tuple.hpp), the Tuple of tuplestorage1.hpp and tuplestorage2.hpp,
\* Tuple3 and Tuple4.
Variants == {"Tuple", "Tuple1", "Tuple2", "Tuple3", "Tuple4"}

\* Element values of scalar and class types: A and B are the empty classes
\* of main.cpp, std::string a class with state, Final an empty final class.
StorageElements ==
  {Elt("int", 0), Elt("int", 3), Elt("char", 1), Elt("A", 0),
   Elt("std::string", 1), Elt("Final", 0)}

\* std::is_class<T>::value
IsClass(T) == T \in {"A", "B", "std::string", "Final"}

\* std::is_final<T>::value
IsFinal(T) == T = "Final"

\* std::is_empty<T>::value
IsEmptyClass(T) == T \in {"A", "B", "Final"}

\* A carrier that inherits from every class type, final or not.
TupleElt2Inherits_anyclass(T) == IsClass(T)

\* The third template argument of TupleElt2<Height, T>: TRUE selects the
\* specialization with the private base T, FALSE the one with the member.
TupleElt2Inherits(T) == IsClass(T) /\ ~IsFinal(T)

\* A carrier without its height, as in tuplestorage2.hpp, in every layout.
Slot_untagged(v, pos, N, e) ==
  [init |-> TRUE,
   carrier |-> CASE v = "Tuple4" -> "TupleElt2<Height, T>"
                 [] v = "Tuple3" -> "TupleElt<Height, T>"
                 [] v = "Tuple2" -> "TupleElt<T>"
                 [] OTHER -> "member",
   Height |-> 0,
   T |-> e.type,
   inherits |-> (v = "Tuple4" /\ TupleElt2Inherits(e.type)),
   value |-> e]

\* The sub-object that holds the element at position pos of a record of N
\* elements.
Slot(v, pos, N, e) ==
  [init |-> TRUE,
   carrier |-> CASE v = "Tuple4" -> "TupleElt2<Height, T>"
                 [] v = "Tuple3" -> "TupleElt<Height, T>"
                 [] v = "Tuple2" -> "TupleElt<T>"
                 [] OTHER -> "member",
   Height |-> IF v \in {"Tuple3", "Tuple4"} THEN N - pos - 1 ELSE 0,
   T |-> e.type,
   inherits |-> (v = "Tuple4" /\ TupleElt2Inherits(e.type)),
   value |-> e]

NoSlot ==
  [init |-> FALSE, carrier |-> "none", Height |-> 0, T |-> "",
   inherits |-> FALSE, value |-> Elt("", 0)]

RecordAt(pos) == [kind |-> "record", from |-> pos]

SlotAt(pos) == [kind |-> "slot", from |-> pos]

\* Tail base first, as in tuplestorage1.hpp, whatever the layout.
SubObjects_tailfirst(v, pos, N) ==
  IF pos >= N THEN <<>> ELSE <<RecordAt(pos + 1), SlotAt(pos)>>

\* The direct sub-objects of the record that starts at position pos, in the
\* order in which a constructor initializes them: the direct bases in the
\* order of the base-specifier list, then the members in declaration order.
SubObjects(v, pos, N) ==
  IF pos >= N THEN <<>>
  ELSE IF v = "Tuple1" THEN <<RecordAt(pos + 1), SlotAt(pos)>>
  ELSE <<SlotAt(pos), RecordAt(pos + 1)>>

\* The type of a carrier: its template and its template arguments.
CarrierType(slot) ==
  [carrier |-> slot.carrier, Height |-> slot.Height, T |-> slot.T]

\* static_cast<TupleElt<Head>*>(this)->get() of tuplestorage2.hpp: the
\* conversion is valid when exactly one base of the record is a
\* TupleElt<Head>.
get_head2(view) ==
  LET bases == {i \in 1..Len(view) : view[i].T = view[1].T} IN
  IF Cardinality(bases) = 1
    THEN [ok |-> TRUE, elt |-> view[CHOOSE i \in bases : TRUE].value]
    ELSE NoElt

\* static_cast<HeadElt*>(this)->get() with HeadElt =
\* TupleElt<sizeof...(Tail), Head>, of Tuple3
get_head3(view) ==
  LET Height == Len(view) - 1
      bases == {i \in 1..Len(view) :
                  view[i].Height = Height /\ view[i].T = view[1].T}
  IN  IF Cardinality(bases) = 1
        THEN [ok |-> TRUE, elt |-> view[CHOOSE i \in bases : TRUE].value]
        ELSE NoElt

\* static_cast<HeadElt*>(this)->get() with HeadElt =
\* TupleElt2<sizeof...(Tail), Head>: the conversion to that base is valid
\* when exactly one base of the record has this type.
get_head4(view) ==
  LET H == Len(view) - 1
      bases == {i \in 1..Len(view) : view[i].Height = H /\ view[i].T = view[1].T}
  IN  IF Cardinality(bases) = 1
        THEN [ok |-> TRUE, elt |-> view[CHOOSE i \in bases : TRUE].value]
        ELSE NoElt

get_tail4(view) == Tail(view)

\* get_tail n times, then get_head
RECURSIVE LinearGet(_, _)
LinearGet(n, view) ==
  IF Len(view) = 0 THEN NoElt
  ELSE IF n = 0 THEN get_head4(view)
  ELSE LinearGet(n - 1, get_tail4(view))

\* getHeight<H>(TupleElt2<H, T>& te): T is deduced from the one base of t
\* that is a TupleElt2<H, T>.
getHeight(H, view) ==
  LET bases == {i \in 1..Len(view) : view[i].Height = H} IN
  IF Cardinality(bases) = 1
    THEN [ok |-> TRUE, elt |-> view[CHOOSE i \in bases : TRUE].value]
    ELSE NoElt

\* A std::size_t value.  The model checker's integers are narrower than
\* std::size_t, so a value that wrapped below zero, 2^64 - k, is held as its
\* distance k from 2^64.
SizeT(n) == [wrapped |-> FALSE, val |-> n]

\* x - b in std::size_t arithmetic (modulo 2^64), for a small b.
SizeSub(x, b) ==
  IF x.wrapped THEN [wrapped |-> TRUE, val |-> x.val + b]
  ELSE IF x.val >= b THEN [wrapped |-> FALSE, val |-> x.val - b]
  ELSE [wrapped |-> TRUE, val |-> b - x.val]

\* Whether a std::size_t value is a valid argument for an unsigned template
\* parameter: 2^64 - k with a small k does not fit 32 bits.
FitsUnsigned(x) == ~x.wrapped

\* The height taken as the distance between I and the last position, on
\* whichever side of it I lies.
get4_distance(n, view) ==
  LET H == SizeSub(SizeSub(SizeT(Len(view)), n), 1) IN
  getHeight(H.val, view)

\* A height that is one too large.
get4_offbyone(n, view) ==
  LET H == SizeSub(SizeT(Len(view)), n) IN
  IF FitsUnsigned(H) THEN getHeight(H.val, view) ELSE NoElt

\* get<I>(Tuple4<Elements...>& t): the height sizeof...(Elements) - I - 1 is
\* computed in std::size_t and must fit the unsigned template parameter of
\* getHeight.
get4(n, view) ==
  LET H == SizeSub(SizeSub(SizeT(Len(view)), n), 1) IN
  IF FitsUnsigned(H) THEN getHeight(H.val, view) ELSE NoElt

----------------------------------------------------------------------------
(* The parts of the program a run does not use stay as they are *)

TupleIdle ==
  /\ t = <<>>
  /\ value = Elt("int", 0)
  /\ Types = <<>>
  /\ cat = "const lvalue"
  /\ op = "none"
  /\ result = IllFormed
  /\ eq = FALSE
  /\ strm = ""

TypeListIdle ==
  /\ List = TypeList(<<>>)
  /\ Compare = "SmallerThanT"
  /\ Type = TypeList(<<>>)
  /\ inst = "none"

StorageIdle ==
  /\ variant = "Tuple"
  /\ args = <<>>
  /\ pending = <<>>
  /\ obj = <<>>
  /\ initLog = <<>>
  /\ access = "none"
  /\ I = 0
  /\ got = NoElt
  /\ walked = NoElt

\* No sizeof has been evaluated.
Unmeasured == [Tuple |-> 0, Tuple3 |-> 0, Tuple4 |-> 0]

LayoutIdle ==
  /\ pack = <<>>
  /\ sizes = Unmeasured

----------------------------------------------------------------------------
(* Construction of a record, one sub-object at a time, and element access *)

\* The constructor of variant<Types...> is entered with its arguments.
InitStorage ==
  /\ variant \in Variants
  /\ args \in SeqsUpTo(StorageElements, MaxArity)
  /\ pending = <<RecordAt(0)>>
  /\ obj = [i \in 1..Len(args) |-> NoSlot]
  /\ initLog = <<>>
  /\ access = "none"
  /\ I = 0
  /\ got = NoElt
  /\ walked = NoElt
  /\ TypeListIdle
  /\ TupleIdle
  /\ LayoutIdle

\* A record sub-object starts its construction: its bases and members are
\* initialized next, before whatever follows it.
EnterRecord ==
  /\ pending # <<>>
  /\ Head(pending).kind = "record"
  /\ pending' = SubObjects(variant, Head(pending).from, Len(args)) \o Tail(pending)
  /\ UNCHANGED <<variant, args, obj, initLog, access, I, got, walked, typelistVars, tupleVars, layoutVars>>

\* The head carrier (or head member) is initialized from its argument.
InitElement ==
  /\ pending # <<>>
  /\ Head(pending).kind = "slot"
  /\ LET pos == Head(pending).from IN
       /\ obj' = [obj EXCEPT ![pos + 1] = Slot(variant, pos, Len(args), args[pos + 1])]
       /\ initLog' = Append(initLog, pos)
  /\ pending' = Tail(pending)
  /\ UNCHANGED <<variant, args, access, I, got, walked, typelistVars, tupleVars, layoutVars>>

\* get<n>(t) on the constructed Tuple4, and the linear walk to the same
\* position; n is any unsigned index, inside the record or past its end.
Get ==
  /\ pending = <<>>
  /\ variant = "Tuple4"
  /\ access = "none"
  /\ access' = "get"
  /\ \E n \in 0..(Len(args) + MaxBeyond) :
       /\ I' = n
       /\ got' = get4(n, obj)
       /\ walked' = LinearGet(n, obj)
  /\ UNCHANGED <<variant, args, pending, obj, initLog, typelistVars, tupleVars, layoutVars>>

\* The elements of the constructed member-based Tuple, head first.
Members(view) == [i \in 1..Len(view) |-> view[i].value]

\* get<n>(t) on the constructed member-based Tuple: TupleGet<n>::apply walks
\* the tails.
GetTuple ==
  /\ pending = <<>>
  /\ variant = "Tuple"
  /\ access = "none"
  /\ access' = "get"
  /\ \E n \in 0..(Len(args) + MaxBeyond) :
       /\ I' = n
       /\ got' = get(n, Members(obj))
       /\ walked' = TupleGet(n, Members(obj))
  /\ UNCHANGED <<variant, args, pending, obj, initLog, typelistVars, tupleVars, layoutVars>>

\* The record reached by get_tail() applied n times: a reference to the
\* base that holds the elements from position n on.
RECURSIVE TailAt(_, _)
TailAt(n, view) == IF n = 0 THEN view ELSE TailAt(n - 1, Tail(view))

\* t.get_tail()...get_tail().get_head(), with n calls of get_tail, on a
\* constructed record whose elements are held by carrier bases
GetHead ==
  /\ pending = <<>>
  /\ variant \in {"Tuple2", "Tuple3", "Tuple4"}
  /\ access = "none"
  /\ access' = "get_head"
  /\ \E n \in 0..(Len(args) - 1) :
       /\ I' = n
       /\ got' = CASE variant = "Tuple2" -> get_head2(TailAt(n, obj))
                   [] variant = "Tuple3" -> get_head3(TailAt(n, obj))
                   [] OTHER -> get_head4(TailAt(n, obj))
  /\ UNCHANGED <<variant, args, pending, obj, initLog, walked, typelistVars, tupleVars, layoutVars>>

NextStorage ==
  \/ EnterRecord
  \/ InitElement
  \/ Get
  \/ GetTuple
  \/ GetHead

SpecStorage == InitStorage /\ [][NextStorage]_vars

----------------------------------------------------------------------------
(* sizeof of the records of main.cpp: the layout of a class from its base  *)
(* specifiers and members, every type here having alignment 1.  A layout   *)
(* records the type, its size, the size it takes as a base (nvsize),       *)
(* whether it is an empty class, and the empty sub-objects it contains     *)
(* with their offsets: two sub-objects of one type never get one address.  *)

\* The element types of t5, t6 and t7: a single-byte scalar and the empty
\* classes A and B.
LayoutTypes == {"char", "A", "B"}

Max(a, b) == IF a >= b THEN a ELSE b

\* The template arguments of a pack, as written
RECURSIVE PackName(_)
PackName(Ts) ==
  IF Len(Ts) = 0 THEN ""
  ELSE IF Len(Ts) = 1 THEN Head(Ts)
  ELSE Head(Ts) \o ", " \o PackName(Tail(Ts))

\* A class whose bases and members are still to be laid out
ClassBegin == [sizeof |-> 0, dsize |-> 0, empty |-> TRUE, subs |-> {}]

\* D placed at offset off in C would put one of its empty sub-objects on an
\* empty sub-object of the same type that C already holds at that address.
Conflicts(C, D, off) ==
  \E s \in D.subs : [type |-> s.type, at |-> s.at + off] \in C.subs

\* The first offset from the given one at which D does not conflict
FirstFit(C, D, from) ==
  CHOOSE off \in from..(from + C.sizeof) :
    /\ ~Conflicts(C, D, off)
    /\ \A o \in from..(off - 1) : Conflicts(C, D, o)

Shifted(D, off) == {[type |-> s.type, at |-> s.at + off] : s \in D.subs}

\* Every empty base at offset 0, whatever is there already.
AddBase_overlap(C, D) ==
  LET off == IF D.empty THEN 0 ELSE FirstFit(C, D, C.dsize)
      end == off + (IF D.empty THEN D.sizeof ELSE D.nvsize)
  IN  [sizeof |-> Max(C.sizeof, end),
       dsize |-> IF D.empty THEN C.dsize ELSE end,
       empty |-> C.empty /\ D.empty,
       subs |-> C.subs \cup Shifted(D, off)]

\* A direct base D of C: an empty base goes to offset 0 when nothing
\* conflicts there (the empty base class optimization), any other base
\* after the data laid out so far.
AddBase(C, D) ==
  LET off == IF D.empty /\ ~Conflicts(C, D, 0) THEN 0
             ELSE FirstFit(C, D, C.dsize)
      end == off + (IF D.empty THEN D.sizeof ELSE D.nvsize)
  IN  [sizeof |-> Max(C.sizeof, end),
       dsize |-> IF D.empty THEN C.dsize ELSE end,
       empty |-> C.empty /\ D.empty,
       subs |-> C.subs \cup Shifted(D, off)]

\* A non-static data member of type D: it takes sizeof(D) bytes after the
\* data laid out so far, also when D is an empty class.
AddMember(C, D) ==
  LET off == FirstFit(C, D, C.dsize)
      end == off + D.sizeof
  IN  [sizeof |-> Max(C.sizeof, end),
       dsize |-> end,
       empty |-> FALSE,
       subs |-> C.subs \cup Shifted(D, off)]

\* The complete class: its size is never 0.
ClassEnd(C, name) ==
  [type |-> name,
   sizeof |-> Max(C.sizeof, 1),
   nvsize |-> C.sizeof,
   empty |-> C.empty,
   subs |-> IF C.empty THEN C.subs \cup {[type |-> name, at |-> 0]} ELSE C.subs]

\* struct A {}; struct B {}; or a scalar of one byte
TypeLayout(T) ==
  IF IsClass(T) /\ IsEmptyClass(T) THEN ClassEnd(ClassBegin, T)
  ELSE [type |-> T, sizeof |-> 1, nvsize |-> 1, empty |-> FALSE, subs |-> {}]

\* TupleElt<Height, T>: T value;
TupleEltLayout(Height, T) ==
  ClassEnd(AddMember(ClassBegin, TypeLayout(T)),
           "TupleElt<" \o ToString(Height) \o ", " \o T \o ">")

\* TupleElt2<Height, T>: T value; or the private base T
TupleElt2Layout(Height, T) ==
  ClassEnd(IF TupleElt2Inherits(T) THEN AddBase(ClassBegin, TypeLayout(T))
           ELSE AddMember(ClassBegin, TypeLayout(T)),
           "TupleElt2<" \o ToString(Height) \o ", " \o T \o ">")

\* Tuple<Head, Tail...>: Head head; Tuple<Tail...> tail;
RECURSIVE TupleLayout(_)
TupleLayout(Ts) ==
  LET name == "Tuple<" \o PackName(Ts) \o ">" IN
  IF Len(Ts) = 0 THEN ClassEnd(ClassBegin, name)
  ELSE ClassEnd(AddMember(AddMember(ClassBegin, TypeLayout(Head(Ts))),
                          TupleLayout(Tail(Ts))),
                name)

\* Tuple3<Head, Tail...> : TupleElt<sizeof...(Tail), Head>, Tuple3<Tail...>
RECURSIVE Tuple3Layout(_)
Tuple3Layout(Ts) ==
  LET name == "Tuple3<" \o PackName(Ts) \o ">" IN
  IF Len(Ts) = 0 THEN ClassEnd(ClassBegin, name)
  ELSE ClassEnd(AddBase(AddBase(ClassBegin,
                                TupleEltLayout(Len(Ts) - 1, Head(Ts))),
                        Tuple3Layout(Tail(Ts))),
                name)

\* Tuple4<Head, Tail...> : TupleElt2<sizeof...(Tail), Head>, Tuple4<Tail...>
RECURSIVE Tuple4Layout(_)
Tuple4Layout(Ts) ==
  LET name == "Tuple4<" \o PackName(Ts) \o ">" IN
  IF Len(Ts) = 0 THEN ClassEnd(ClassBegin, name)
  ELSE ClassEnd(AddBase(AddBase(ClassBegin,
                                TupleElt2Layout(Len(Ts) - 1, Head(Ts))),
                        Tuple4Layout(Tail(Ts))),
                name)

InitLayout ==
  /\ pack \in SeqsUpTo(LayoutTypes, MaxPack)
  /\ sizes = Unmeasured
  /\ TypeListIdle
  /\ TupleIdle
  /\ StorageIdle

\* sizeof(t5), t5 a Tuple<pack...>
SizeofTuple ==
  /\ sizes.Tuple = 0
  /\ sizes' = [sizes EXCEPT !.Tuple = TupleLayout(pack).sizeof]
  /\ UNCHANGED <<pack, typelistVars, tupleVars, storageVars>>

\* sizeof(t6), t6 a Tuple3<pack...>
SizeofTuple3 ==
  /\ sizes.Tuple3 = 0
  /\ sizes' = [sizes EXCEPT !.Tuple3 = Tuple3Layout(pack).sizeof]
  /\ UNCHANGED <<pack, typelistVars, tupleVars, storageVars>>

\* sizeof(t7), t7 a Tuple4<pack...>
SizeofTuple4 ==
  /\ sizes.Tuple4 = 0
  /\ sizes' = [sizes EXCEPT !.Tuple4 = Tuple4Layout(pack).sizeof]
  /\ UNCHANGED <<pack, typelistVars, tupleVars, storageVars>>

NextLayout ==
  \/ SizeofTuple
  \/ SizeofTuple3
  \/ SizeofTuple4

SpecLayout == InitLayout /\ [][NextLayout]_vars

----------------------------------------------------------------------------
(* Operations on the member-based Tuple *)

InitTuple ==
  /\ t \in Tuples
  /\ value = Elt("int", 0)
  /\ Types = TypesOf(t)
  /\ cat = "const lvalue"
  /\ op = "none"
  /\ result = IllFormed
  /\ eq = FALSE
  /\ strm = ""
  /\ TypeListIdle
  /\ StorageIdle
  /\ LayoutIdle

\* Tuple<Ty...> t2(t) with t a const lvalue, an lvalue or an rvalue
CopyConstruct ==
  /\ op = "none"
  /\ \E Ty \in [1..Len(t) -> ScalarTypes], c \in {"const lvalue", "lvalue", "rvalue"} :
       /\ Types' = Ty
       /\ cat' = c
       /\ result' = Construct1(Ty, t, c)
  /\ op' = "construct"
  /\ UNCHANGED <<t, value, eq, strm, typelistVars, storageVars, layoutVars>>

\* reverse(t)
Reverse ==
  /\ op = "none"
  /\ result' = reverse(t)
  /\ op' = "reverse"
  /\ UNCHANGED <<t, value, Types, cat, eq, strm, typelistVars, storageVars, layoutVars>>

\* pop_back(push_back(t, v)) == t
PushBackPopBack ==
  /\ op = "none"
  /\ \E v \in Elements :
       /\ value' = v
       /\ result' = (IF push_back(t, v).ok
                       THEN pop_back(push_back(t, v).tuple)
                       ELSE IllFormed)
       /\ eq' = (result'.ok /\ TupleEq(result'.tuple, t).ok /\ TupleEq(result'.tuple, t).val)
  /\ op' = "pop_back push_back"
  /\ UNCHANGED <<t, Types, cat, strm, typelistVars, storageVars, layoutVars>>

\* std::cout << t
StreamInsert ==
  /\ op = "none"
  /\ strm' = Output(strm, t)
  /\ op' = "print"
  /\ UNCHANGED <<t, value, Types, cat, result, eq, typelistVars, storageVars, layoutVars>>

NextTuple ==
  \/ CopyConstruct
  \/ Reverse
  \/ PushBackPopBack
  \/ StreamInsert

SpecTuple == InitTuple /\ [][NextTuple]_vars

----------------------------------------------------------------------------
(* Instantiations of the typelist engine *)

TypeLists == {TypeList(a) : a \in SeqsUpTo(ElementTypes, MaxLen)}

ValueLists == {ValueList("int", a) : a \in SeqsUpTo(0..MaxValue, MaxLen)}
                \cup {IntegersList}

InitTypeList ==
  /\ \/ List \in TypeLists /\ Compare = "SmallerThanT"
     \/ List \in ValueLists /\ Compare \in {"SmallerThanT", "GreaterThanT"}
  /\ Type = List
  /\ inst = "none"
  /\ TupleIdle
  /\ StorageIdle
  /\ LayoutIdle

\* InsertionSort<List, Compare>
InstantiateInsertionSort ==
  /\ inst = "none"
  /\ Type' = InsertionSortT(List, Compare)
  /\ inst' = "InsertionSort"
  /\ UNCHANGED <<List, Compare, tupleVars, storageVars, layoutVars>>

\* Reverse<List>
InstantiateReverse ==
  /\ inst = "none"
  /\ Type' = ReverseT(List)
  /\ inst' = "Reverse"
  /\ UNCHANGED <<List, Compare, tupleVars, storageVars, layoutVars>>

\* Reverse<Reverse<List>>: Reverse instantiated with the previous result
InstantiateReverseAgain ==
  /\ inst = "Reverse"
  /\ Type' = ReverseT(Type)
  /\ inst' = "ReverseReverse"
  /\ UNCHANGED <<List, Compare, tupleVars, storageVars, layoutVars>>

NextTypeList ==
  \/ InstantiateInsertionSort
  \/ InstantiateReverse
  \/ InstantiateReverseAgain

SpecTypeList == InitTypeList /\ [][NextTypeList]_vars

----------------------------------------------------------------------------
(* Properties of the typelist engine *)

\* The elements of a list as types (a ValueList element is its CTValue).
Elems(L) ==
  [i \in 1..Len(L.Args) |->
     IF L.tmpl = "ValueList" THEN CTValue(L.T, L.Args[i]) ELSE L.Args[i]]

\* Neither element is strictly ordered before the other.
Tie(C, a, b) == ~CompareValue(C, a, b) /\ ~CompareValue(C, b, a)

\* The elements of s that tie with x, in the order in which s holds them.
TieClass(C, s, x) ==
  LET keep(e) == Tie(C, e, x) IN SelectSeq(s, keep)

Mirror(s) == [i \in 1..Len(s) |-> s[Len(s) + 1 - i]]

Count(s, e) == Cardinality({i \in 1..Len(s) : s[i] = e})

IsPermutation(s, r) ==
  /\ Len(s) = Len(r)
  /\ \A i \in 1..Len(r) : Count(s, r[i]) = Count(r, r[i])

SortedBy(C, s) ==
  \A i \in 1..(Len(s) - 1) : ~CompareValue(C, s[i + 1], s[i])

\* C2 (as stated): InsertionSort is stable, i.e. the elements that Compare
\* leaves unordered keep, in InsertionSort<List, Compare>, the relative order
\* they have in List.
C2_Stable ==
  inst = "InsertionSort" =>
    \A i \in 1..Len(List.Args) :
      TieClass(Compare, Elems(Type), Elems(List)[i])
        = TieClass(Compare, Elems(List), Elems(List)[i])

\* C2 (amended): the elements that Compare leaves unordered appear in
\* InsertionSort<List, Compare> in the reverse of the relative order they
\* have in List.
C2_TiesReversed ==
  inst = "InsertionSort" =>
    \A i \in 1..Len(List.Args) :
      TieClass(Compare, Elems(Type), Elems(List)[i])
        = Mirror(TieClass(Compare, Elems(List), Elems(List)[i]))

\* Two different types of equal size, int before float, have been sorted.
C2_Witness ==
  /\ inst = "InsertionSort"
  /\ List.tmpl = "TypeList"
  /\ List.Args = <<PlainType("int"), PlainType("char"), PlainType("float")>>
  /\ Type.Args = <<PlainType("char"), PlainType("float"), PlainType("int")>>

\* C3: InsertionSort<List, Compare> is a permutation of List in which no
\* element is strictly ordered before its predecessor; [6,2,4,9,5,2,1,7]
\* under greater-than gives [9,7,6,5,4,2,2,1] and the empty list gives the
\* empty list.
C3_SortedPermutation ==
  inst = "InsertionSort" =>
    /\ Type.tmpl = List.tmpl
    /\ IsPermutation(Elems(Type), Elems(List))
    /\ SortedBy(Compare, Elems(Type))
    /\ (List.tmpl = "ValueList" /\ Compare = "GreaterThanT"
          /\ List.Args = <<6, 2, 4, 9, 5, 2, 1, 7>>)
         => Type.Args = <<9, 7, 6, 5, 4, 2, 2, 1>>
    /\ IsEmpty(List) => IsEmpty(Type)

\* The Integers list of the source has been sorted under greater-than.
C3_Witness ==
  /\ inst = "InsertionSort"
  /\ Compare = "GreaterThanT"
  /\ List.tmpl = "ValueList"
  /\ List.Args = <<6, 2, 4, 9, 5, 2, 1, 7>>
  /\ Type.Args = <<9, 7, 6, 5, 4, 2, 2, 1>>

\* C8: Reverse<Reverse<List>> is identical to List, for type lists and value
\* lists, the empty list included.
C8_ReverseInvolution ==
  inst = "ReverseReverse" => Type = List

\* A list of three elements with different ends has been reversed twice.
C8_Witness ==
  /\ inst = "ReverseReverse"
  /\ Len(List.Args) = 3
  /\ List.Args[1] # List.Args[3]
  /\ Type = List

----------------------------------------------------------------------------
(* Properties of the member-based Tuple *)

\* C1 (as stated): constructing a Tuple from one record of the same length
\* n >= 1, passed as a const or a non-const lvalue, selects a copy
\* constructor and never the variadic forwarding constructor, and element i
\* of the new record is element i of the source converted to the target type.
C1_CopySelected ==
  (op = "construct" /\ Len(t) >= 1 /\ cat \in {"const lvalue", "lvalue"}) =>
    /\ result.ok
    /\ result.ctor \in {"converting copy", "implicit copy"}
    /\ Len(result.tuple) = Len(t)
    /\ \A i \in 1..Len(t) : result.tuple[i] = Convert(t[i], Types[i])

\* The text "(e0, e1, ..., eN)" of a record.
RECURSIVE Joined(_)
Joined(tu) ==
  IF Len(tu) = 0 THEN ""
  ELSE IF Len(tu) = 1 THEN Format(tu[1])
  ELSE (Format(tu[1]) \o ", ") \o Joined(Tail(tu))

\* C6 (as stated): pop_back(push_back(R, v)) is a record and is equal
\* (operator==) to R, for every record R of length n >= 0 and value v.
C6_PopBackPushBack ==
  op = "pop_back push_back" => (result.ok /\ eq)

\* C7 (as stated): reverse(t) is a record of the length N of t whose element
\* i is element N-1-i of t.
C7_ReverseGathers ==
  op = "reverse" =>
    /\ result.ok
    /\ Len(result.tuple) = Len(t)
    /\ \A i \in 1..Len(t) : result.tuple[i] = t[Len(t) + 1 - i]

\* C9 (as stated): operator<< writes one opening parenthesis, the elements
\* in position order separated by ", ", and one closing parenthesis, for a
\* record of any length n >= 0.
C9_Parenthesized ==
  op = "print" => strm = ("(" \o Joined(t)) \o ")"

----------------------------------------------------------------------------
(* Properties of the storage layouts *)

Constructed == pending = <<>> /\ Len(initLog) = Len(args)

\* C4 (as stated): a carrier of Tuple4 has the inheriting form exactly when
\* its element type is an empty, non-final class type.
C4_InheritsIffEmptyClass ==
  variant = "Tuple4" =>
    \A i \in 1..Len(obj) :
      obj[i].init =>
        (obj[i].inherits <=>
           (IsClass(obj[i].T) /\ IsEmptyClass(obj[i].T) /\ ~IsFinal(obj[i].T)))

\* C4 (amended): a carrier of Tuple4 has the inheriting form exactly when
\* its element type is a non-final class type, empty or not; a non-class
\* type and a final class are stored as a data member.
C4_InheritsIffNonFinalClass ==
  variant = "Tuple4" =>
    \A i \in 1..Len(obj) :
      obj[i].init =>
        (obj[i].inherits <=> (IsClass(obj[i].T) /\ ~IsFinal(obj[i].T)))

\* A Tuple4 holding a class with state, an empty class, a final class and a
\* scalar has been constructed: the first two inherit, the others do not.
C4_Witness ==
  /\ variant = "Tuple4"
  /\ Constructed
  /\ \E i \in 1..Len(obj) : obj[i].T = "std::string" /\ obj[i].inherits
  /\ \E i \in 1..Len(obj) : obj[i].T = "Final" /\ ~obj[i].inherits
  /\ \E i \in 1..Len(obj) : obj[i].T = "A" /\ obj[i].inherits

\* C5: on a Tuple4 of n >= 1 elements and for every I < n, the
\* height-computed get<I> yields an element, the same one as get_tail applied
\* I times followed by get_head, also when element types repeat.
C5_GetMatchesLinearWalk ==
  (variant = "Tuple4" /\ access = "get" /\ I < Len(args)) =>
    /\ got.ok
    /\ walked.ok
    /\ got.elt = walked.elt
    /\ got.elt = args[I + 1]

\* get<1> has been applied to a Tuple4 whose first two elements are ints of
\* different value.
C5_Witness ==
  /\ variant = "Tuple4"
  /\ access = "get"
  /\ Len(args) = 3
  /\ args[1] = Elt("int", 0)
  /\ args[2] = Elt("int", 3)
  /\ I = 1
  /\ got.ok
  /\ got.elt = Elt("int", 3)
  /\ walked = got

\* C11: get<I> on a record of N elements yields an element exactly when
\* I < N, in the walk of TupleGet over the member-based Tuple and in the
\* height-computed get over Tuple4 alike: an index I >= N is rejected, the
\* walk ending on the empty record and the height N - I - 1 wrapping around.
C11_GetInRangeOnly ==
  (variant \in {"Tuple", "Tuple4"} /\ access = "get") =>
    /\ got.ok <=> I < Len(args)
    /\ walked.ok <=> I < Len(args)
    /\ got.ok => got.elt = args[I + 1]

\* get<3> has been applied to a Tuple4 of two elements and was rejected:
\* the height 2 - 3 - 1 is not the height 1 or 0 of a carrier.
C11_Witness ==
  /\ variant = "Tuple4"
  /\ access = "get"
  /\ Len(args) = 2
  /\ I = 3
  /\ ~got.ok
  /\ ~walked.ok

\* sizeof(t5), sizeof(t6) and sizeof(t7) have been evaluated.
Measured == sizes.Tuple # 0 /\ sizes.Tuple3 # 0 /\ sizes.Tuple4 # 0

\* The number of elements of a stateless (empty, non-final) class type
Stateless(Ts) ==
  Cardinality({i \in 1..Len(Ts) : IsEmptyClass(Ts[i]) /\ ~IsFinal(Ts[i])})

\* No stateless class type is the type of two elements.
StatelessOnce(Ts) ==
  \A i, j \in 1..Len(Ts) :
    (i # j /\ IsEmptyClass(Ts[i])) => Ts[i] # Ts[j]

\* C12 (as stated): for every record of single-byte scalars and stateless
\* classes, Tuple3 is one byte smaller than Tuple, and Tuple4 is smaller than
\* Tuple3 by one byte for each element of a stateless class type.
C12_OneBytePerStateless ==
  (Measured /\ Len(pack) >= 1) =>
    /\ sizes.Tuple3 = sizes.Tuple - 1
    /\ sizes.Tuple4 = sizes.Tuple3 - Stateless(pack)

\* C12 (amended): for every non-empty record of single-byte scalars and
\* stateless classes, Tuple3 is one byte smaller than Tuple; Tuple4 is never
\* larger than Tuple3, never smaller than one byte nor than its scalars, and
\* saves at most one byte for each element of a stateless class type.  It
\* saves exactly that, down to the one byte every object has, when no
\* stateless class is the type of two elements, and nothing when all
\* elements are of one stateless class, whose sub-objects need an address
\* each; <A, char, A, char, B> measures 6, 5 and 2 bytes.
C12_AtMostOneBytePerStateless ==
  (Measured /\ Len(pack) >= 1) =>
    /\ sizes.Tuple3 = sizes.Tuple - 1
    /\ sizes.Tuple4 <= sizes.Tuple3
    /\ sizes.Tuple4 >= Max(1, Len(pack) - Stateless(pack))
    /\ StatelessOnce(pack) =>
         sizes.Tuple4 = Max(1, Len(pack) - Stateless(pack))
    /\ (IsEmptyClass(pack[1]) /\ \A i \in 1..Len(pack) : pack[i] = pack[1]) =>
         sizes.Tuple4 = sizes.Tuple3
    /\ pack = <<"A", "char", "A", "char", "B">> =>
         sizes = [Tuple |-> 6, Tuple3 |-> 5, Tuple4 |-> 2]

\* The three sizes of <A, A, char, char> have been measured: Tuple4 takes 3
\* bytes, one less than Tuple3, with two elements of the stateless class A.
C12_Witness ==
  /\ pack = <<"A", "A", "char", "char">>
  /\ Measured
  /\ sizes.Tuple3 = 4
  /\ sizes.Tuple4 = 3

\* C13: in a Tuple3 and a Tuple4 of N elements the element at position i is
\* held by the carrier of height N-1-i, so that the carriers of one record
\* are of pairwise different types also when element types repeat, and
\* get_head at every nesting level converts to one carrier and yields the
\* element of that level.  In the layout of tuplestorage2.hpp two elements of
\* one type have carriers of one type, and get_head at the level of the
\* first of them is ambiguous: it yields an element only when no later
\* element has the type of the head.
C13_HeightMakesCarriersUnique ==
  /\ variant \in {"Tuple3", "Tuple4"} =>
       /\ \A i \in 1..Len(obj) :
            obj[i].init => obj[i].Height = Len(args) - 1 - (i - 1)
       /\ \A i, j \in 1..Len(obj) :
            (i # j /\ obj[i].init /\ obj[j].init) =>
              CarrierType(obj[i]) # CarrierType(obj[j])
  /\ (variant \in {"Tuple3", "Tuple4"} /\ access = "get_head") =>
       /\ got.ok
       /\ got.elt = args[I + 1]
  /\ variant = "Tuple2" =>
       \A i, j \in 1..Len(obj) :
         (obj[i].init /\ obj[j].init /\ obj[i].T = obj[j].T) =>
           CarrierType(obj[i]) = CarrierType(obj[j])
  /\ (variant = "Tuple2" /\ access = "get_head") =>
       /\ got.ok <=> (\A j \in (I + 2)..Len(args) : args[j].type # args[I + 1].type)
       /\ got.ok => got.elt = args[I + 1]

\* get_head has been applied to a Tuple3 whose first two elements are ints
\* of different value, and has yielded the first.
C13_Witness ==
  /\ variant = "Tuple3"
  /\ access = "get_head"
  /\ Len(args) = 3
  /\ args[1] = Elt("int", 0)
  /\ args[2] = Elt("int", 3)
  /\ I = 0
  /\ got = [ok |-> TRUE, elt |-> Elt("int", 0)]
  /\ obj[1].Height = 2
  /\ obj[2].Height = 1

\* C10: while a Tuple3, a Tuple4 or a member-based Tuple is constructed, the
\* elements are initialized in position order 0, 1, ..., N-1.
C10_InitInPositionOrder ==
  variant \in {"Tuple", "Tuple3", "Tuple4"} =>
    /\ \A k \in 1..Len(initLog) : initLog[k] = k - 1
    /\ pending = <<>> => Len(initLog) = Len(args)

\* A Tuple3 of three elements is completely constructed.
C10_Witness ==
  /\ variant = "Tuple3"
  /\ Len(args) = 3
  /\ pending = <<>>
  /\ initLog = <<0, 1, 2>>

====
